---------------------------- MODULE Spec2Model ----------------------------
(***************************************************************************)
(* Model of mypy/stubgenc.py, the stub generator for C modules.            *)
(*                                                                         *)
(* Python strings are TLA+ strings; characters are strings of length 1,    *)
(* read with SubSeq.  Python lists are sequences, None is the value None.  *)
(* Every function of the source is an operator computed the way the code   *)
(* computes it; a specification draws a function's arguments in its Init   *)
(* and applies the function in one action.                                 *)
(***************************************************************************)
EXTENDS Integers, Sequences, FiniteSets, TLC

VARIABLES
    pc,       \* "start" before the call under check, "done" after it
    module,   \* module.__name__ of the module the stub is generated for
    args,     \* the arguments of the call under check
    imports,  \* the list `imports` shared by all the generators
    output,   \* the list of lines the call appends to (or is given)
    result,   \* the value the call returns, or the exception it raises
    fs        \* the file system: directories, the target file, the effects so far

vars == <<pc, module, args, imports, output, result, fs>>

None == "<None>"

\* The file system of the calls that touch no file.
NoFiles == [dirs |-> {}, opened |-> FALSE, text |-> None, log |-> <<>>]

-----------------------------------------------------------------------------
(* Python str primitives.                                                  *)

CharAt(s, i) == SubSeq(s, i, i)

\* s[k:]
SliceFrom(s, k) == IF k >= Len(s) THEN "" ELSE SubSeq(s, k + 1, Len(s))

\* s[:k]
SliceTo(s, k) == IF k <= 0 THEN "" ELSE IF k >= Len(s) THEN s ELSE SubSeq(s, 1, k)

\* s[a:b], for offsets 0 <= a and 0 <= b
Slice(s, a, b) == IF b <= a \/ a >= Len(s) THEN ""
                  ELSE SubSeq(s, a + 1, IF b >= Len(s) THEN Len(s) ELSE b)

\* s.startswith(p)
StartsWith(s, p) == Len(p) <= Len(s) /\ SubSeq(s, 1, Len(p)) = p

\* s.endswith(p)
EndsWith(s, p) == Len(p) <= Len(s) /\ SubSeq(s, Len(s) - Len(p) + 1, Len(s)) = p

\* c in s, for a character c
Contains(s, c) == \E i \in 1..Len(s) : CharAt(s, i) = c

\* s.index(c) and s.rindex(c) as 0-based offsets; only used when c in s
Index(s, c) == (CHOOSE i \in 1..Len(s) :
                   CharAt(s, i) = c /\ \A j \in 1..(i - 1) : CharAt(s, j) # c) - 1

RIndex(s, c) == (CHOOSE i \in 1..Len(s) :
                   CharAt(s, i) = c /\ \A j \in (i + 1)..Len(s) : CharAt(s, j) # c) - 1

\* sep.join(parts)
RECURSIVE Join(_, _)
Join(parts, sep) ==
    IF parts = <<>> THEN ""
    ELSE IF Len(parts) = 1 THEN parts[1]
    ELSE parts[1] \o sep \o Join(Tail(parts), sep)

\* s.split(c), for a character c
RECURSIVE Split(_, _)
Split(s, c) ==
    IF Contains(s, c)
    THEN <<SliceTo(s, Index(s, c))>> \o Split(SliceFrom(s, Index(s, c) + 1), c)
    ELSE <<s>>

\* s.split(c, 1)
SplitOnce(s, c) ==
    IF Contains(s, c)
    THEN <<SliceTo(s, Index(s, c)), SliceFrom(s, Index(s, c) + 1)>>
    ELSE <<s>>

\* s.strip()
RECURSIVE LStrip(_)
LStrip(s) == IF s # "" /\ CharAt(s, 1) = " " THEN LStrip(SliceFrom(s, 1)) ELSE s

RECURSIVE RStrip(_)
RStrip(s) == IF s # "" /\ CharAt(s, Len(s)) = " " THEN RStrip(SliceTo(s, Len(s) - 1)) ELSE s

Strip(s) == RStrip(LStrip(s))

\* The characters of the model in code point order; str comparison is
\* lexicographic in it.
CodePoints ==
    " ()*,-.0123456789:=>@ABCDEFGHIJKLMNOPQRSTUVWXYZ[]_abcdefghijklmnopqrstuvwxyz"

Ord(c) == Index(CodePoints, c)

\* a < b on str
RECURSIVE StrLess(_, _)
StrLess(a, b) ==
    IF b = "" THEN FALSE
    ELSE IF a = "" THEN TRUE
    ELSE IF CharAt(a, 1) = CharAt(b, 1) THEN StrLess(SliceFrom(a, 1), SliceFrom(b, 1))
    ELSE Ord(CharAt(a, 1)) < Ord(CharAt(b, 1))

\* \w of the re module, on the characters of the model
WordChars == "0123456789ABCDEFGHIJKLMNOPQRSTUVWXYZ_abcdefghijklmnopqrstuvwxyz"

WordCharSet == {CharAt(WordChars, i) : i \in 1..Len(WordChars)}

IsWordChar(c) == c \in WordCharSet

-----------------------------------------------------------------------------
(* strip_or_import(typ, module, imports): the pair <<returned name,        *)
(* imports after the call>>.  A module object is always true, so the       *)
(* `module and` of the first test is left out.                             *)

\* The resolver as the specification words it: the trailing bare name is kept.
StripOrImport_TrailingName(typ, mod, imps) ==
    IF StartsWith(typ, mod)
    THEN <<SliceFrom(typ, Len(mod) + 1), imps>>
    ELSE IF Contains(typ, ".")
         THEN LET arg_module == SliceTo(typ, RIndex(typ, "."))
              IN  IF arg_module = "builtins"
                  THEN <<SliceFrom(typ, Len("builtins") + 1), imps>>
                  ELSE <<SliceFrom(typ, RIndex(typ, ".") + 1),
                         Append(imps, "import " \o arg_module)>>
         ELSE <<typ, imps>>

StripOrImport(typ, mod, imps) ==
    IF StartsWith(typ, mod)
    THEN <<SliceFrom(typ, Len(mod) + 1), imps>>
    ELSE IF Contains(typ, ".")
         THEN LET arg_module == SliceTo(typ, RIndex(typ, "."))
              IN  IF arg_module = "builtins"
                  THEN <<SliceFrom(typ, Len("builtins") + 1), imps>>
                  ELSE <<typ, Append(imps, "import " \o arg_module)>>
         ELSE <<typ, imps>>

-----------------------------------------------------------------------------
(* Arguments of strip_or_import: dotted names of up to MaxTypParts         *)
(* identifiers, in a module of up to MaxModParts identifiers.              *)

MaxTypParts == 3
MaxModParts == 2

Idents == {"A", "Any", "foo", "foobar", "builtins"}

RECURSIVE Dotted(_)
Dotted(n) == IF n = 1 THEN Idents
             ELSE Dotted(n - 1) \cup {d \o "." \o i : d \in Dotted(n - 1), i \in Idents}

TypNames == Dotted(MaxTypParts)
ModuleNames == Dotted(MaxModParts)

InitStrip ==
    /\ pc = "start"
    /\ module \in ModuleNames
    /\ args \in [typ : TypNames]
    /\ imports = <<>>
    /\ output = <<>>
    /\ result = None
    /\ fs = NoFiles

CallStripOrImport ==
    /\ pc = "start"
    /\ LET r == StripOrImport(args.typ, module, imports)
       IN  /\ result' = r[1]
           /\ imports' = r[2]
    /\ pc' = "done"
    /\ UNCHANGED <<module, args, output, fs>>

SpecStrip == InitStrip /\ [][CallStripOrImport]_vars

-----------------------------------------------------------------------------
(* Claims about strip_or_import, checked under SpecStrip.                  *)

\* The part of a dotted name before its final dot, and the part after it.
SourcePath(typ) == SliceTo(typ, RIndex(typ, "."))
BareName(typ) == SliceFrom(typ, RIndex(typ, ".") + 1)

\* C5 as stated: a dotted type name whose part before the final dot is
\* neither the module's name nor builtins records `import <that part>` and
\* is returned as its trailing bare name; a name in builtins is returned as
\* its trailing name with no import recorded.
C5_ForeignNameReturnsBareName ==
    (pc = "done" /\ Contains(args.typ, ".")) =>
        /\ (SourcePath(args.typ) \notin {module, "builtins"}) =>
               /\ imports = <<"import " \o SourcePath(args.typ)>>
               /\ result = BareName(args.typ)
        /\ (SourcePath(args.typ) = "builtins") =>
               /\ imports = <<>>
               /\ result = BareName(args.typ)

\* C5 amended: a dotted type name that does not start with the module's name
\* and whose part before the final dot is not builtins records
\* `import <that part>` and is returned unchanged, as the full dotted name;
\* when that part is builtins the trailing name is returned and no import
\* is recorded.
C5_ForeignNameKeptQualified ==
    (pc = "done" /\ Contains(args.typ, ".") /\ ~StartsWith(args.typ, module)) =>
        /\ (SourcePath(args.typ) # "builtins") =>
               /\ imports = <<"import " \o SourcePath(args.typ)>>
               /\ result = args.typ
        /\ (SourcePath(args.typ) = "builtins") =>
               /\ imports = <<>>
               /\ result = BareName(args.typ)

C5_Witness ==
    /\ pc = "done"
    /\ module = "foo"
    /\ args.typ = "A.foobar.Any"
    /\ imports = <<"import A.foobar">>
    /\ result = "A.foobar.Any"

\* C6: only a name of the form <module name>.<rest> is local and becomes
\* <rest> with no import; a name with no dot is returned unchanged with no
\* import, whatever the module is called; a dotted name that does not start
\* with <module name>. is not treated as local: it is either a builtins
\* name or has the import of its source path recorded.
C6_OnlyModulePrefixIsLocal ==
    (pc = "done") =>
        /\ StartsWith(args.typ, module \o ".") =>
               /\ result = SliceFrom(args.typ, Len(module) + 1)
               /\ imports = <<>>
        /\ ~Contains(args.typ, ".") =>
               /\ result = args.typ
               /\ imports = <<>>
        /\ (Contains(args.typ, ".") /\ ~StartsWith(args.typ, module \o ".")) =>
               \/ SourcePath(args.typ) = "builtins" /\ result = BareName(args.typ)
               \/ imports = <<"import " \o SourcePath(args.typ)>>

-----------------------------------------------------------------------------
(* add_typing_import(output).                                              *)

\* re.search(r'\b%s\b' % name, line): name starts and ends with a word
\* character, so \b holds before it at the start of the line or after a
\* non-word character, and after it at the end or before a non-word character.
\* (ReSearchWord_Substring is the search without its word boundaries.)
ReSearchWord_Substring(name, line) ==
    \E i \in 1..(Len(line) - Len(name) + 1) : SubSeq(line, i, i + Len(name) - 1) = name

ReSearchWord(name, line) ==
    \E i \in 1..(Len(line) - Len(name) + 1) :
        /\ SubSeq(line, i, i + Len(name) - 1) = name
        /\ (i = 1 \/ ~IsWordChar(CharAt(line, i - 1)))
        /\ (i + Len(name) - 1 = Len(line) \/ ~IsWordChar(CharAt(line, i + Len(name))))

TypingNames == <<"Any", "Union", "Tuple", "Optional", "List", "Dict">>

\* The names in alphabetical order, as sorted(names) would give them.
AddTypingImportNames_Sorted(lines) ==
    LET Used(name) == \E k \in 1..Len(lines) : ReSearchWord(name, lines[k])
    IN  SelectSeq(SortSeq(TypingNames, StrLess), Used)

\* The list `names` built by the loop.
AddTypingImportNames(lines) ==
    LET Used(name) == \E k \in 1..Len(lines) : ReSearchWord(name, lines[k])
    IN  SelectSeq(TypingNames, Used)

AddTypingImport(lines) ==
    LET names == AddTypingImportNames(lines)
    IN  IF names # <<>>
        THEN <<"from typing import " \o Join(names, ", "), "">> \o lines
        ELSE lines

(* Arguments of add_typing_import: up to MaxLines lines, each a line a     *)
(* stub can hold: a marker as a whole word, a marker inside a longer       *)
(* identifier, several markers, or none.                                   *)

MaxLines == 3

MarkerSet == {TypingNames[i] : i \in 1..Len(TypingNames)}

StubLines ==
    {"x: " \o m : m \in MarkerSet}
    \cup {"a: AnyStr", "class MyDict: ...", "y: _List", "z: Tuple2",
          "d: Dict[str, Any]", "u: Optional[Union]", "x: int", ""}

RECURSIVE LineLists(_)
LineLists(n) ==
    IF n = 0 THEN {<<>>}
    ELSE LineLists(n - 1)
         \cup {Append(l, x) : l \in {m \in LineLists(n - 1) : Len(m) = n - 1}, x \in StubLines}

InitTyping ==
    /\ pc = "start"
    /\ module = "m"
    /\ args = [name |-> "add_typing_import"]
    /\ imports = <<>>
    /\ output \in LineLists(MaxLines)
    /\ result = None
    /\ fs = NoFiles

CallAddTypingImport ==
    /\ pc = "start"
    /\ result' = AddTypingImport(output)
    /\ pc' = "done"
    /\ UNCHANGED <<module, args, imports, output, fs>>

SpecTyping == InitTyping /\ [][CallAddTypingImport]_vars

(* Claims about add_typing_import, checked under SpecTyping.               *)

\* The identifiers of a line: its maximal runs of word characters.
Identifiers(line) ==
    {SubSeq(line, i, j) : <<i, j>> \in
        {p \in (1..Len(line)) \X (1..Len(line)) :
            /\ p[1] <= p[2]
            /\ \A k \in p[1]..p[2] : IsWordChar(CharAt(line, k))
            /\ (p[1] = 1 \/ ~IsWordChar(CharAt(line, p[1] - 1)))
            /\ (p[2] = Len(line) \/ ~IsWordChar(CharAt(line, p[2] + 1)))}}

\* The markers that are an identifier of some line of the given output.
MarkersUsed ==
    MarkerSet \cap UNION {Identifiers(output[k]) : k \in 1..Len(output)}

\* The names listed on a `from typing import ...` line.
ImportedNames(line) ==
    LET parts == Split(SliceFrom(line, Len("from typing import ")), ",")
    IN  [i \in 1..Len(parts) |-> Strip(parts[i])]

\* C8: the result is the output prefixed by one `from typing import` line and
\* one blank line exactly when a marker is an identifier of some line; the
\* line names exactly the markers used, each once; otherwise the result is
\* the output unchanged.
C8_TypingImportNamesMarkersUsed ==
    (pc = "done") =>
        LET used == MarkersUsed
        IN  IF used = {}
            THEN result = output
            ELSE /\ Len(result) = Len(output) + 2
                 /\ SubSeq(result, 3, Len(result)) = output
                 /\ result[2] = ""
                 /\ StartsWith(result[1], "from typing import ")
                 /\ LET names == ImportedNames(result[1])
                    IN  /\ {names[i] : i \in 1..Len(names)} = used
                        /\ Len(names) = Cardinality(used)

C8_Witness ==
    /\ pc = "done"
    /\ output = <<"a: AnyStr", "x: Any", "class MyDict: ...">>
    /\ result[1] = "from typing import Any"
    /\ Len(result) = 5

\* C9 as stated: the names on the import line are in alphabetical order.
C9_TypingImportAlphabetical ==
    (pc = "done" /\ MarkersUsed # {}) =>
        LET names == ImportedNames(result[1])
        IN  \A i \in 1..(Len(names) - 1) : StrLess(names[i], names[i + 1])

\* C9 amended: the names on the import line are in the order of the list
\* Any, Union, Tuple, Optional, List, Dict.
C9_TypingImportInListOrder ==
    (pc = "done" /\ MarkersUsed # {}) =>
        LET names == ImportedNames(result[1])
            Pos(n) == CHOOSE k \in 1..Len(TypingNames) : TypingNames[k] = n
        IN  /\ \A i \in 1..Len(names) : names[i] \in MarkerSet
            /\ \A i \in 1..(Len(names) - 1) : Pos(names[i]) < Pos(names[i + 1])

C9_Witness ==
    /\ pc = "done"
    /\ result # None
    /\ result # <<>>
    /\ result[1] = "from typing import Union, Tuple, List"

-----------------------------------------------------------------------------
(* The signature inference of mypy.stubutil, which stubgenc imports.       *)

\* infer_sig_from_docstring(docstr, name): the pair <<signature, return
\* type>> when the documentation string has the form `name(params) -> Ret`
\* or the bare form `name(params)`, whose return type is Any; None otherwise.
InferSigFromDocstring(docstr, name) ==
    IF docstr = None \/ docstr = "" THEN None
    ELSE IF ~StartsWith(docstr, name \o "(") THEN None
    ELSE LET rest == SliceFrom(docstr, Len(name))
         IN  IF ~Contains(rest, ")") THEN None
             ELSE LET sig == SliceTo(rest, Index(rest, ")") + 1)
                      after == SliceFrom(rest, Index(rest, ")") + 1)
                  IN  IF StartsWith(after, " -> ") /\ Len(after) > Len(" -> ")
                      THEN <<sig, RStrip(SliceFrom(after, Len(" -> ")))>>
                      ELSE <<sig, "Any">>

\* infer_prop_type_from_docstring(docstr): the text before the first `: `
\* of the documentation string, None when there is none.
InferPropTypeFromDocstring(docstr) ==
    IF docstr = None \/ docstr = "" THEN None
    ELSE IF \E i \in 1..(Len(docstr) - 1) : SubSeq(docstr, i, i + 1) = ": "
         THEN SliceTo(docstr, (CHOOSE i \in 1..(Len(docstr) - 1) :
                                  /\ SubSeq(docstr, i, i + 1) = ": "
                                  /\ \A j \in 1..(i - 1) : SubSeq(docstr, j, j + 1) # ": ") - 1)
         ELSE None

-----------------------------------------------------------------------------
(* infer_method_sig(name).                                                 *)

InferMethodSig(name) ==
    IF StartsWith(name, "__") /\ EndsWith(name, "__")
    THEN LET n == Slice(name, 2, Len(name) - 2)
         IN  IF n \in {"hash", "iter", "next", "sizeof", "copy", "deepcopy", "reduce",
                       "getinitargs", "int", "float", "trunc", "complex", "bool"}
             THEN "()"
             ELSE IF n = "getitem" THEN "(index)"
             ELSE IF n = "setitem" THEN "(index, object)"
             ELSE IF n \in {"delattr", "getattr"} THEN "(name)"
             ELSE IF n = "setattr" THEN "(name, value)"
             ELSE IF n = "getstate" THEN "()"
             ELSE IF n = "setstate" THEN "(state)"
             ELSE IF n \in {"eq", "ne", "lt", "le", "gt", "ge",
                            "add", "radd", "sub", "rsub", "mul", "rmul",
                            "mod", "rmod", "floordiv", "rfloordiv", "truediv", "rtruediv",
                            "divmod", "rdivmod", "pow", "rpow"}
             THEN "(other)"
             ELSE IF n \in {"neg", "pos"} THEN "()"
             ELSE "(*args, **kwargs)"
    ELSE "(*args, **kwargs)"

-----------------------------------------------------------------------------
(* generate_c_function_stub.  A dict is a function whose DOMAIN is its     *)
(* keys; an object is given by its __doc__; None and "" are false.         *)

EmptyDict == <<>>

Truthy(x) == x # None /\ x # ""

\* Lines 130-142: the pair <<sig, ret_type>> chosen among the sources.
\* (ChooseSignature_DocstringFirst consults the documentation string before
\* the per-class override.)
ChooseSignature_DocstringFirst(name, docstr, sigs, class_name, class_sigs) ==
    LET ret_type == IF name = "__init__" /\ Truthy(class_name) THEN "None" ELSE "Any"
        inferred == InferSigFromDocstring(docstr, name)
    IN  IF inferred # None
        THEN inferred
        ELSE IF /\ name \in {"__new__", "__init__"}
                /\ name \notin DOMAIN sigs
                /\ Truthy(class_name)
                /\ class_name \in DOMAIN class_sigs
        THEN <<class_sigs[class_name], ret_type>>
        ELSE IF Truthy(class_name) /\ name \notin DOMAIN sigs
             THEN <<InferMethodSig(name), ret_type>>
             ELSE <<IF name \in DOMAIN sigs THEN sigs[name] ELSE "(*args, **kwargs)",
                    ret_type>>

ChooseSignature(name, docstr, sigs, class_name, class_sigs) ==
    LET ret_type == IF name = "__init__" /\ Truthy(class_name) THEN "None" ELSE "Any"
    IN  IF /\ name \in {"__new__", "__init__"}
           /\ name \notin DOMAIN sigs
           /\ Truthy(class_name)
           /\ class_name \in DOMAIN class_sigs
        THEN <<class_sigs[class_name], ret_type>>
        ELSE LET inferred == InferSigFromDocstring(docstr, name)
             IN  IF inferred # None
                 THEN inferred
                 ELSE IF Truthy(class_name) /\ name \notin DOMAIN sigs
                      THEN <<InferMethodSig(name), ret_type>>
                      ELSE <<IF name \in DOMAIN sigs THEN sigs[name]
                             ELSE "(*args, **kwargs)",
                             ret_type>>

\* Lines 144-153: the pair <<self_arg, sig>> after the parentheses are
\* stripped and the annotation on self is removed.
StripSelf(sig0, self_var) ==
    LET self_arg == IF Truthy(self_var) THEN self_var \o ", " ELSE ""
        sig == Slice(sig0, 1, Len(sig0) - 1)
    IN  IF sig # ""
        THEN IF Truthy(self_var)
             THEN LET groups == SplitOnce(sig, ",")
                  IN  IF groups[1] = self_var \/ StartsWith(groups[1], self_var \o ":")
                      THEN <<"", IF Len(groups) > 1
                                 THEN self_var \o "," \o groups[2]
                                 ELSE self_var>>
                      ELSE <<self_arg, sig>>
             ELSE <<self_arg, sig>>
        ELSE <<IF Truthy(self_var) THEN self_var ELSE "", sig>>

\* Lines 155-167: the pair <<list sig_types, imports>> of the loop over the
\* parameters from the k-th on.
RECURSIVE SigTypes(_, _, _, _)
SigTypes(params, k, mod, imps) ==
    IF k > Len(params) THEN <<<<>>, imps>>
    ELSE LET arg_type == SplitOnce(params[k], ":")
         IN  IF Len(arg_type) = 1
             THEN LET r == SigTypes(params, k + 1, mod, imps)
                  IN  <<<<Strip(arg_type[1])>> \o r[1], r[2]>>
             ELSE LET t == StripOrImport(Strip(arg_type[2]), mod, imps)
                      r == SigTypes(params, k + 1, mod, t[2])
                  IN  <<<<Strip(arg_type[1]) \o ": " \o t[1]>> \o r[1], r[2]>>

\* Line 170: the line is appended; ret is the pair strip_or_import gave for
\* the return type.
EmitDef(name, out, self_arg, sig, ret) ==
    <<Append(out, "def " \o name \o "(" \o self_arg \o sig \o ") -> " \o ret[1] \o ": ..."),
      ret[2]>>

\* Lines 167-169: typed is the pair <<sig_types, imports>> of the loop.
RenderTyped(mod, name, out, self_arg, typed, ret_type) ==
    EmitDef(name, out, self_arg, Join(typed[1], ", "), StripOrImport(ret_type, mod, typed[2]))

\* Lines 155-166: stripped is the pair <<self_arg, sig>>.
RenderStripped(mod, name, out, imps, stripped, ret_type) ==
    RenderTyped(mod, name, out, stripped[1],
                IF stripped[2] # ""
                THEN SigTypes(Split(stripped[2], ","), 1, mod, imps)
                ELSE <<<<>>, imps>>,
                ret_type)

\* Lines 143-170: the pair <<output, imports>> once the signature and the
\* return type are chosen.
RenderFunctionStub(mod, name, out, imps, self_var, chosen) ==
    RenderStripped(mod, name, out, imps, StripSelf(chosen[1], self_var), chosen[2])

\* The whole function: the pair <<output, imports>> after the call.
GenerateCFunctionStub(mod, name, docstr, out, imps, self_var, sigs, class_name, class_sigs) ==
    RenderFunctionStub(mod, name, out, imps, self_var,
                       ChooseSignature(name, docstr, sigs, class_name, class_sigs))

(* Arguments of generate_c_function_stub: a module level function (no      *)
(* class, no receiver) or a member of class X (receiver self or cls);      *)
(* documentation strings and overrides with up to MaxParams parameters.    *)

MaxParams == 2

Params == {"self", "cls", "x", "self: m.X", "y: int", "self: Dict[str, int]"}

RECURSIVE ParamLists(_)
ParamLists(n) ==
    IF n = 0 THEN {<<>>}
    ELSE ParamLists(n - 1)
         \cup {Append(l, x) : l \in {m \in ParamLists(n - 1) : Len(m) = n - 1}, x \in Params}

SigTexts == {"(" \o Join(l, ", ") \o ")" : l \in ParamLists(MaxParams)}

Docstrings(name) ==
    {None, "Return the answer."}
    \cup {name \o sig : sig \in SigTexts}
    \cup {name \o sig \o " -> int" : sig \in SigTexts}

FuncNames == {"__init__", "__new__", "__eq__", "foo"}

Receivers == {[class_name |-> None, self_var |-> None],
              [class_name |-> "X", self_var |-> "self"],
              [class_name |-> "X", self_var |-> "cls"]}

SigsTables(name) == {EmptyDict, name :> "(a, b)", name :> "(self: Dict[str, int], x)"}

ClassSigsTables == {EmptyDict, "X" :> "(c: int)", "Y" :> "(d)"}

InitFunc ==
    /\ pc = "start"
    /\ module = "m"
    /\ \E name \in FuncNames, r \in Receivers :
          args \in [name : {name},
                    docstr : Docstrings(name),
                    self_var : {r.self_var},
                    sigs : SigsTables(name),
                    class_name : {r.class_name},
                    class_sigs : ClassSigsTables]
    /\ imports = <<>>
    /\ output = <<>>
    /\ result = None
    /\ fs = NoFiles

CallGenerateCFunctionStub ==
    /\ pc = "start"
    /\ LET r == GenerateCFunctionStub(module, args.name, args.docstr, output, imports,
                                      args.self_var, args.sigs, args.class_name,
                                      args.class_sigs)
       IN  /\ output' = r[1]
           /\ imports' = r[2]
    /\ pc' = "done"
    /\ UNCHANGED <<module, args, result, fs>>

SpecFunc == InitFunc /\ [][CallGenerateCFunctionStub]_vars

(* Claims about generate_c_function_stub, checked under SpecFunc.          *)

\* The stub a constructor of a class gets from a given signature source.
RenderedFrom(chosen) ==
    RenderFunctionStub(module, args.name, <<>>, <<>>, args.self_var, chosen)

IsClassConstructorCall ==
    /\ pc = "done"
    /\ args.name \in {"__new__", "__init__"}
    /\ Truthy(args.class_name)

DefaultRetType == IF args.name = "__init__" THEN "None" ELSE "Any"

\* C4 as stated: for a constructor of a class, a documentation string that
\* matches is used first; the class_sigs override is used only when there is
\* no documentation string or it does not match; the name heuristic only
\* when neither applies.
C4_DocstringBeforeClassSigs ==
    IsClassConstructorCall =>
        LET inferred == InferSigFromDocstring(args.docstr, args.name)
        IN  IF inferred # None
            THEN <<output, imports>> = RenderedFrom(inferred)
            ELSE args.name \notin DOMAIN args.sigs =>
                    IF args.class_name \in DOMAIN args.class_sigs
                    THEN <<output, imports>>
                             = RenderedFrom(<<args.class_sigs[args.class_name], DefaultRetType>>)
                    ELSE <<output, imports>>
                             = RenderedFrom(<<InferMethodSig(args.name), DefaultRetType>>)

\* C4 amended: for a constructor of a class whose name has no entry in sigs,
\* the class_sigs override of the class is used first, even when the
\* documentation string matches; the documentation string is used only when
\* the class has no override, and the name heuristic only when neither
\* applies.  When the name has an entry in sigs, class_sigs is not consulted:
\* a matching documentation string is used, else the sigs entry.
C4_ClassSigsBeforeDocstring ==
    IsClassConstructorCall =>
        LET inferred == InferSigFromDocstring(args.docstr, args.name)
        IN  IF args.name \notin DOMAIN args.sigs
            THEN IF args.class_name \in DOMAIN args.class_sigs
                 THEN <<output, imports>>
                          = RenderedFrom(<<args.class_sigs[args.class_name], DefaultRetType>>)
                 ELSE IF inferred # None
                 THEN <<output, imports>> = RenderedFrom(inferred)
                 ELSE <<output, imports>>
                          = RenderedFrom(<<InferMethodSig(args.name), DefaultRetType>>)
            ELSE IF inferred # None
                 THEN <<output, imports>> = RenderedFrom(inferred)
                 ELSE <<output, imports>>
                          = RenderedFrom(<<args.sigs[args.name], DefaultRetType>>)

\* A constructor of X with a matching documentation string and an override
\* for X: the stub has the override's parameter.
C4_Witness ==
    /\ pc = "done"
    /\ args.name = "__init__"
    /\ args.docstr = "__init__(self, x) -> int"
    /\ args.class_name = "X"
    /\ args.self_var = "self"
    /\ args.sigs = EmptyDict
    /\ args.class_sigs = ("X" :> "(c: int)")
    /\ output = <<"def __init__(self, c: int) -> None: ...">>

-----------------------------------------------------------------------------
(* The runtime objects a class holds.  A value is given by what the probes *)
(* of the inspect module and getattr see of it.                            *)

RuntimeValue(typename, ismethoddescriptor, isbuiltin, isdatadescriptor, has_fget, fset, doc) ==
    [typename |-> typename, ismethoddescriptor |-> ismethoddescriptor,
     isbuiltin |-> isbuiltin, isdatadescriptor |-> isdatadescriptor,
     has_fget |-> has_fget, fset |-> fset, doc |-> doc]

\* A method of a C type, such as str.index.
MethodDescriptor(doc) ==
    RuntimeValue("method_descriptor", TRUE, FALSE, FALSE, FALSE, None, doc)

\* A builtin function in the class's table, such as str.__new__.
BuiltinFunction(doc) ==
    RuntimeValue("builtin_function_or_method", FALSE, TRUE, FALSE, FALSE, None, doc)

\* A class method of a C type, such as dict.fromkeys.
ClassmethodDescriptor(doc) ==
    RuntimeValue("classmethod_descriptor", TRUE, FALSE, FALSE, FALSE, None, doc)

\* A property, with its setter or without one.
PropertyValue(doc, fset) ==
    RuntimeValue("property", FALSE, FALSE, TRUE, TRUE, fset, doc)

\* A plain value.
IntValue == RuntimeValue("int", FALSE, FALSE, FALSE, FALSE, None, None)

IsCMethod(obj) ==
    \/ obj.ismethoddescriptor
    \/ obj.typename \in {"method_descriptor", "wrapper_descriptor", "builtin_function_or_method"}

IsCClassmethod(obj) ==
    obj.isbuiltin \/ obj.typename \in {"classmethod", "classmethod_descriptor"}

IsCProperty(obj) == obj.isdatadescriptor /\ obj.has_fget

IsCPropertyReadonly(prop) == prop.fset = None

-----------------------------------------------------------------------------
(* method_name_sort_key and is_skipped_attribute.                          *)

IsDunder(name) == StartsWith(name, "__") /\ EndsWith(name, "__")

\* The key with the priorities of ordinary and dunder names exchanged.
MethodNameSortKey_DunderFirst(name) ==
    IF name \in {"__new__", "__init__"} THEN <<0, name>>
    ELSE IF IsDunder(name) THEN <<1, name>>
    ELSE <<2, name>>

MethodNameSortKey(name) ==
    IF name \in {"__new__", "__init__"} THEN <<0, name>>
    ELSE IF IsDunder(name) THEN <<2, name>>
    ELSE <<1, name>>

\* Tuple[int, str] < Tuple[int, str]
KeyLess(k1, k2) == k1[1] < k2[1] \/ (k1[1] = k2[1] /\ StrLess(k1[2], k2[2]))

RECURSIVE SetToSeq(_)
SetToSeq(S) == IF S = {} THEN <<>>
               ELSE LET x == CHOOSE y \in S : TRUE IN <<x>> \o SetToSeq(S \ {x})

\* sorted(obj_dict.items(), key=lambda x: method_name_sort_key(x[0])), as the
\* list of the names; the keys of a dict are distinct.
SortedItems(obj_dict) ==
    LET ByKey(a, b) == KeyLess(MethodNameSortKey(a), MethodNameSortKey(b))
    IN  SortSeq(SetToSeq(DOMAIN obj_dict), ByKey)

SkippedAttributes ==
    {"__getattribute__", "__str__", "__repr__", "__doc__", "__dict__", "__module__",
     "__weakref__"}

IsSkippedAttribute(attr) == attr \in SkippedAttributes

-----------------------------------------------------------------------------
(* generate_c_property_stub.                                               *)

GenerateCPropertyStub(name, docstr, out, readonly) ==
    LET found == InferPropTypeFromDocstring(docstr)
        inferred == IF found = None \/ found = "" THEN "Any" ELSE found
        getter == out \o <<"@property", "def " \o name \o "(self) -> " \o inferred \o ": ...">>
    IN  IF ~readonly
        THEN getter \o <<"@" \o name \o ".setter",
                         "def " \o name \o "(self, val: " \o inferred \o ") -> None: ...">>
        ELSE getter

-----------------------------------------------------------------------------
(* Classes.  A class is a number, object is ObjectClass; the table         *)
(* `classes` gives each class its __name__, its __module__ and its direct  *)
(* bases.  mro() is the C3 linearisation of the runtime.                   *)

ObjectClass == 0

Inconsistent == -1

Range(seq) == {seq[i] : i \in 1..Len(seq)}

\* The merge of C3: the first head that is in no tail, repeatedly.
RECURSIVE C3Merge(_)

\* One step of the merge on lists that are not empty: h is the head chosen.
C3Take(rest, h) ==
    <<h>> \o C3Merge([j \in 1..Len(rest) |->
                         IF Head(rest[j]) = h THEN Tail(rest[j]) ELSE rest[j]])

C3Step(rest) ==
    LET Good(i) == \A j \in 1..Len(rest) : Head(rest[i]) \notin Range(Tail(rest[j]))
    IN  IF \E i \in 1..Len(rest) : Good(i)
        THEN C3Take(rest, Head(rest[CHOOSE i \in 1..Len(rest) :
                                        Good(i) /\ \A j \in 1..(i - 1) : ~Good(j)]))
        ELSE <<Inconsistent>>

C3Merge(seqs) ==
    IF \A i \in 1..Len(seqs) : seqs[i] = <<>>
    THEN <<>>
    ELSE C3Step(SelectSeq(seqs, LAMBDA q : q # <<>>))

RECURSIVE Mro(_, _)
Mro(classes, c) ==
    IF c = ObjectClass THEN <<ObjectClass>>
    ELSE LET bs == classes[c].bases
         IN  <<c>> \o C3Merge([i \in 1..Len(bs) |-> Mro(classes, bs[i])] \o <<bs>>)

\* issubclass(a, b)
IsSubclass(classes, a, b) == b \in Range(Mro(classes, a))

ClassNameOf(classes, c) == IF c = ObjectClass THEN "object" ELSE classes[c].name

ClassModuleOf(classes, c) == IF c = ObjectClass THEN "builtins" ELSE classes[c].module

-----------------------------------------------------------------------------
(* generate_c_type_stub.                                                   *)

\* The lists of the loop over the members: methods, properties, done, and
\* the shared imports.
LoopState(methods, properties, done, imps) ==
    [methods |-> methods, properties |-> properties, done |-> done, imports |-> imps]

\* Lines 234-244: a method or class method that is not skipped; st already
\* holds its @classmethod line, if any.
MethodStep(attr, value, st, self_var, mod, class_name, obj_dict, sigs, class_sigs) ==
    IF attr = "__new__" /\ "__init__" \in DOMAIN obj_dict
    THEN st
    ELSE LET r == GenerateCFunctionStub(mod, IF attr = "__new__" THEN "__init__" ELSE attr,
                                        value.doc, st.methods, st.imports, self_var, sigs,
                                        class_name, class_sigs)
         IN  LoopState(r[1], st.properties, st.done, r[2])

\* Lines 226-247: one item of the loop.
MemberStep(attr, value, st, mod, class_name, obj_dict, sigs, class_sigs) ==
    IF IsCMethod(value) \/ IsCClassmethod(value)
    THEN IF ~IsSkippedAttribute(attr)
         THEN IF IsCClassmethod(value)
              THEN MethodStep(attr, value,
                              LoopState(Append(st.methods, "@classmethod"), st.properties,
                                        st.done \cup {attr}, st.imports),
                              "cls", mod, class_name, obj_dict, sigs, class_sigs)
              ELSE MethodStep(attr, value,
                              LoopState(st.methods, st.properties, st.done \cup {attr},
                                        st.imports),
                              "self", mod, class_name, obj_dict, sigs, class_sigs)
         ELSE LoopState(st.methods, st.properties, st.done \cup {attr}, st.imports)
    ELSE IF IsCProperty(value)
    THEN LoopState(st.methods,
                   GenerateCPropertyStub(attr, value.doc, st.properties,
                                         IsCPropertyReadonly(value)),
                   st.done \cup {attr}, st.imports)
    ELSE st

\* Lines 225-247, from the k-th item on.
RECURSIVE MembersLoop(_, _, _, _, _, _, _, _)
MembersLoop(items, k, st, mod, class_name, obj_dict, sigs, class_sigs) ==
    IF k > Len(items) THEN st
    ELSE MembersLoop(items, k + 1,
                     MemberStep(items[k], obj_dict[items[k]], st, mod, class_name, obj_dict,
                                sigs, class_sigs),
                     mod, class_name, obj_dict, sigs, class_sigs)

\* Lines 249-254.
Variables(items, done) ==
    LET kept == SelectSeq(items, LAMBDA attr : ~IsSkippedAttribute(attr) /\ attr \notin done)
    IN  [i \in 1..Len(kept) |-> kept[i] \o ": Any = ..."]

\* Lines 256-258.
DropObject(all_bases) ==
    IF all_bases[Len(all_bases)] = ObjectClass
    THEN SubSeq(all_bases, 1, Len(all_bases) - 1)
    ELSE all_bases

\* Lines 261-262.
DropPybind(classes, all_bases) ==
    IF all_bases # <<>> /\ ClassNameOf(classes, all_bases[Len(all_bases)]) = "pybind11_object"
    THEN SubSeq(all_bases, 1, Len(all_bases) - 1)
    ELSE all_bases

\* Line 264: all_bases[1:]
DropSelf(all_bases) == IF all_bases = <<>> THEN <<>> ELSE Tail(all_bases)

\* Lines 255-264: the ancestors left of the mro.
AllBases(classes, obj) == DropSelf(DropPybind(classes, DropObject(Mro(classes, obj))))

\* The loop of lines 266-269 with the arguments of issubclass exchanged.
RECURSIVE MinimalBases_Reversed(_, _, _, _)
MinimalBases_Reversed(classes, all_bases, k, bases) ==
    IF k > Len(all_bases) THEN bases
    ELSE MinimalBases_Reversed(classes, all_bases, k + 1,
             IF ~\E i \in 1..Len(bases) : IsSubclass(classes, all_bases[k], bases[i])
             THEN Append(bases, all_bases[k])
             ELSE bases)

\* Lines 266-269, from the k-th ancestor on.
RECURSIVE MinimalBases(_, _, _, _)
MinimalBases(classes, all_bases, k, bases) ==
    IF k > Len(all_bases) THEN bases
    ELSE MinimalBases(classes, all_bases, k + 1,
             IF ~\E i \in 1..Len(bases) : IsSubclass(classes, bases[i], all_bases[k])
             THEN Append(bases, all_bases[k])
             ELSE bases)

\* Lines 270-279: the pair <<list of the rendered bases, imports>>, from
\* the k-th base on.
RECURSIVE RenderBases(_, _, _, _, _)
RenderBases(classes, bases, k, mod, imps) ==
    IF k > Len(bases) THEN <<<<>>, imps>>
    ELSE LET t == StripOrImport(ClassModuleOf(classes, bases[k]) \o "."
                                    \o ClassNameOf(classes, bases[k]), mod, imps)
             r == RenderBases(classes, bases, k + 1, mod, t[2])
         IN  <<<<t[1]>> \o r[1], r[2]>>

Indent(lines) == [i \in 1..Len(lines) |-> "    " \o lines[i]]

\* A variant that always opens a block, even for a class without a line.
EmitClass_AlwaysBlock(class_name, out, st, variables, bases_str, imps) ==
    <<Append(out, "class " \o class_name \o bases_str \o ":")
          \o Indent(variables) \o Indent(st.methods) \o Indent(st.properties),
      imps>>

\* Lines 280-289: the class line and the indented members.
EmitClass(class_name, out, st, variables, bases_str, imps) ==
    IF st.methods = <<>> /\ variables = <<>> /\ st.properties = <<>>
    THEN <<Append(out, "class " \o class_name \o bases_str \o ": ..."), imps>>
    ELSE <<Append(out, "class " \o class_name \o bases_str \o ":")
               \o Indent(variables) \o Indent(st.methods) \o Indent(st.properties),
           imps>>

\* Lines 270-279.
BasesStr(bases, rendered) ==
    IF bases # <<>> THEN "(" \o Join(rendered, ", ") \o ")" ELSE ""

\* Lines 249-289: st is what the loop over the members left, rendered the
\* pair <<rendered bases, imports>>.
RenderClass(mod, class_name, classes, items, out, st, bases, rendered) ==
    EmitClass(class_name, out, st, Variables(items, st.done),
              BasesStr(bases, rendered[1]), rendered[2])

\* Lines 249-289, with the class's items, the result of the loop over the
\* members and the minimal bases computed.
FinishClass(mod, class_name, classes, items, out, st, bases) ==
    RenderClass(mod, class_name, classes, items, out, st, bases,
                RenderBases(classes, bases, 1, mod, st.imports))

\* Lines 225-289, with the sorted items computed.
StubOfItems(mod, class_name, obj, classes, obj_dict, items, out, imps, sigs, class_sigs) ==
    FinishClass(mod, class_name, classes, items, out,
                MembersLoop(items, 1, LoopState(<<>>, <<>>, {}, imps),
                            mod, class_name, obj_dict, sigs, class_sigs),
                MinimalBases(classes, AllBases(classes, obj), 1, <<>>))

\* The whole function: the pair <<output, imports>> after the call.
GenerateCTypeStub(mod, class_name, obj, classes, obj_dict, out, imps, sigs, class_sigs) ==
    StubOfItems(mod, class_name, obj, classes, obj_dict, SortedItems(obj_dict), out, imps,
                sigs, class_sigs)

CallGenerateCTypeStub ==
    /\ pc = "start"
    /\ LET r == GenerateCTypeStub(module, args.class_name, args.obj, args.classes,
                                  args.obj_dict, output, imports, args.sigs, args.class_sigs)
       IN  /\ output' = r[1]
           /\ imports' = r[2]
    /\ pc' = "done"
    /\ UNCHANGED <<module, args, result, fs>>

-----------------------------------------------------------------------------
(* Arguments of generate_c_type_stub for the claims about the base list:   *)
(* the last of up to MaxClasses classes, each with one or two direct bases *)
(* among object and the classes before it, in every order the runtime      *)
(* accepts; at most one class is called pybind11_object.                   *)

MaxClasses == 4

BaseLists(c) ==
    {<<b>> : b \in 0..(c - 1)}
    \cup {<<a, b>> : <<a, b>> \in {p \in (0..(c - 1)) \X (0..(c - 1)) : p[1] # p[2]}}

\* The consistent tables of n classes C1 .. Cn of module m.
RECURSIVE PlainClassTables(_)
PlainClassTables(n) ==
    IF n = 0 THEN {<<>>}
    ELSE {t \in {Append(s, [name |-> "C" \o CharAt("123456789", n),
                            module |-> "m",
                            bases |-> bl]) : s \in PlainClassTables(n - 1),
                                              bl \in BaseLists(n)} :
             Inconsistent \notin Range(Mro(t, n))}

\* The table with class p, if any, called pybind11_object.
WithPybind(t, p) ==
    [c \in 1..Len(t) |->
        IF c = p THEN [t[c] EXCEPT !.name = "pybind11_object",
                                   !.module = "pybind11_builtins"]
        ELSE t[c]]

ClassTables ==
    UNION {{WithPybind(t, p) : t \in PlainClassTables(n), p \in 0..n} : n \in 1..MaxClasses}

InitBases ==
    /\ pc = "start"
    /\ module = "m"
    /\ \E classes \in ClassTables :
          /\ args = [class_name |-> classes[Len(classes)].name,
                     obj |-> Len(classes),
                     classes |-> classes,
                     obj_dict |-> EmptyDict,
                     sigs |-> EmptyDict,
                     class_sigs |-> EmptyDict]
    /\ imports = <<>>
    /\ output = <<>>
    /\ result = None
    /\ fs = NoFiles

SpecBases == InitBases /\ [][CallGenerateCTypeStub]_vars

(* Claims about the base list, checked under SpecBases.                    *)

\* The positions in the mro of the ancestors that remain once the type
\* itself (the first), object (the last) and a pybind11_object just before
\* object are removed.
RemainingAncestors ==
    LET mro == Mro(args.classes, args.obj)
        n == Len(mro)
    IN  {i \in 2..(n - 1) :
            ~(i = n - 1 /\ ClassNameOf(args.classes, mro[i]) = "pybind11_object")}

\* Those of them that are a superclass of no other remaining ancestor.
KeptAncestors ==
    LET mro == Mro(args.classes, args.obj)
    IN  {i \in RemainingAncestors :
            ~\E j \in RemainingAncestors :
                j # i /\ IsSubclass(args.classes, mro[j], mro[i])}

\* The kept positions in increasing order, that is in mro order.
RECURSIVE Ascending(_)
Ascending(S) ==
    IF S = {} THEN <<>>
    ELSE LET lo == CHOOSE x \in S : \A y \in S : x <= y
         IN  <<lo>> \o Ascending(S \ {lo})

DisplayName(c) ==
    StripOrImport(ClassModuleOf(args.classes, c) \o "." \o ClassNameOf(args.classes, c),
                  module, <<>>)[1]

\* C1: the header of the class stub lists exactly the remaining ancestors
\* that are a superclass of no other remaining ancestor, in mro order; no
\* listed base is a superclass of another one and every ancestor left out is
\* a superclass of a listed one.
C1_MinimalBasesInMroOrder ==
    (pc = "done") =>
        LET mro == Mro(args.classes, args.obj)
            kept == Ascending(KeptAncestors)
            names == [i \in 1..Len(kept) |-> DisplayName(mro[kept[i]])]
            bases_str == IF kept = <<>> THEN "" ELSE "(" \o Join(names, ", ") \o ")"
        IN  /\ output = <<"class " \o args.class_name \o bases_str \o ": ...">>
            /\ \A i \in RemainingAncestors \ KeptAncestors :
                  \E j \in KeptAncestors : IsSubclass(args.classes, mro[j], mro[i])

\* The linear chain C4 -> C3 -> C2 -> C1: the only base listed is C3.
C1_Witness ==
    /\ pc = "done"
    /\ args.obj = 4
    /\ \A c \in 1..4 : /\ args.classes[c].bases = <<c - 1>>
                        /\ args.classes[c].name # "pybind11_object"
    /\ output = <<"class C4(C3): ...">>

-----------------------------------------------------------------------------
(* Arguments of generate_c_type_stub for the claims about the members: a   *)
(* class table of up to MaxMembers members, each a method, a builtin, a    *)
(* class method, a property or a plain value, with or without a            *)
(* documentation string; class X derives from Base and has a class_sigs    *)
(* entry, class Y derives from object and has none.                        *)

MaxMembers == 2

MemberNames == {"__new__", "__init__", "__str__", "__doc__", "__eq__", "foo", "Bar"}

MemberDocs(name) == {None, name \o "(self, x: int) -> int", "__init__(x)"}

MemberValues(name) ==
    {MethodDescriptor(d) : d \in MemberDocs(name)}
    \cup {BuiltinFunction(d) : d \in MemberDocs(name)}
    \cup {ClassmethodDescriptor(None),
          PropertyValue(None, None),
          PropertyValue("int: the size", "fset"),
          IntValue}

ObjDicts ==
    UNION {{f \in [S -> UNION {MemberValues(n) : n \in S}] :
               \A n \in S : f[n] \in MemberValues(n)}
           : S \in {T \in SUBSET MemberNames : Cardinality(T) <= MaxMembers}}

MemberClasses ==
    <<[name |-> "Base", module |-> "m", bases |-> <<ObjectClass>>],
      [name |-> "X", module |-> "m", bases |-> <<1>>],
      [name |-> "Y", module |-> "m", bases |-> <<ObjectClass>>]>>

InitMembers ==
    /\ pc = "start"
    /\ module = "m"
    /\ \E obj \in {2, 3} :
          args \in [class_name : {MemberClasses[obj].name},
                    obj : {obj},
                    classes : {MemberClasses},
                    obj_dict : ObjDicts,
                    sigs : {EmptyDict},
                    class_sigs : {"X" :> "(c: int)"}]
    /\ imports = <<>>
    /\ output = <<>>
    /\ result = None
    /\ fs = NoFiles

SpecMembers == InitMembers /\ [][CallGenerateCTypeStub]_vars

(* Claims about the members of a class stub, checked under SpecMembers.    *)

\* The lines of the class stub after its header, without their indentation.
Body == [i \in 1..(Len(output) - 1) |-> SliceFrom(output[i + 1], Len("    "))]

IsDefOf(line, name) == StartsWith(line, "def " \o name \o "(")

IsCallable(value) == IsCMethod(value) \/ IsCClassmethod(value)

HasCallable(name) == name \in DOMAIN args.obj_dict /\ IsCallable(args.obj_dict[name])

\* The constructors in the class's table, if any, are callable members.
ConstructorsAreCallable ==
    \A name \in {"__new__", "__init__"} \cap DOMAIN args.obj_dict : HasCallable(name)

\* The stub of the same class without its __new__ member.
StubWithoutNew ==
    GenerateCTypeStub(module, args.class_name, args.obj, args.classes,
                      [n \in DOMAIN args.obj_dict \ {"__new__"} |-> args.obj_dict[n]],
                      <<>>, <<>>, args.sigs, args.class_sigs)

\* C2: with callable __new__ and __init__ the stub has exactly one
\* `def __init__` line and nothing that comes from __new__: it is the stub
\* of the class without __new__; with a callable __new__ and no __init__ the
\* stub has one `def __init__` line, made from __new__; and when the
\* constructors are callable members no stub has a `def __new__` line.
C2_NewFoldedIntoInit ==
    (pc = "done" /\ ConstructorsAreCallable) =>
        /\ (HasCallable("__new__") /\ HasCallable("__init__")) =>
               /\ Cardinality({i \in 1..Len(Body) : IsDefOf(Body[i], "__init__")}) = 1
               /\ output = StubWithoutNew[1]
        /\ (HasCallable("__new__") /\ "__init__" \notin DOMAIN args.obj_dict) =>
               Cardinality({i \in 1..Len(Body) : IsDefOf(Body[i], "__init__")}) = 1
        /\ \A i \in 1..Len(Body) : ~IsDefOf(Body[i], "__new__")

\* C3: when the constructors are callable members, every `def __init__`
\* line of a class stub ends with the return type None.
C3_InitReturnsNone ==
    (pc = "done" /\ ConstructorsAreCallable) =>
        \A i \in 1..Len(Body) :
            IsDefOf(Body[i], "__init__") => EndsWith(Body[i], ") -> None: ...")

\* The name a line of the class body declares, None for a decorator line.
DeclaredName(line) ==
    IF StartsWith(line, "def ") THEN Slice(line, Len("def "), Index(line, "("))
    ELSE IF StartsWith(line, "@") THEN None
    ELSE SliceTo(line, Index(line, ":"))

\* C7: no line of a class stub declares a member whose name is in the
\* blocklist: no def line, no constant line, no setter decorator.
C7_BlocklistNeverRendered ==
    (pc = "done") =>
        \A i \in 1..Len(Body) :
            /\ DeclaredName(Body[i]) \notin SkippedAttributes
            /\ \A name \in SkippedAttributes : Body[i] # "@" \o name \o ".setter"

\* The block a line of the class body belongs to: 1 a constant, 3 a line
\* of a property (its decorator or the def under it), 2 a method line.
IsPropertyDecorator(line) ==
    line = "@property" \/ (StartsWith(line, "@") /\ EndsWith(line, ".setter"))

BlockOf(i) ==
    IF EndsWith(Body[i], ": Any = ...") THEN 1
    ELSE IF IsPropertyDecorator(Body[i]) \/ (i > 1 /\ IsPropertyDecorator(Body[i - 1])) THEN 3
    ELSE 2

\* The priority of a name as the claim words it.
ClaimedPriority(name) ==
    IF name \in {"__new__", "__init__"} THEN 0
    ELSE IF Len(name) >= 2 /\ SubSeq(name, 1, 2) = "__"
            /\ SubSeq(name, Len(name) - 1, Len(name)) = "__" THEN 2
    ELSE 1

ClaimedBefore(a, b) ==
    \/ ClaimedPriority(a) < ClaimedPriority(b)
    \/ ClaimedPriority(a) = ClaimedPriority(b) /\ StrLess(a, b)

\* The lines that open a member: a constant line, the def line of a method,
\* the getter's def line of a property.
OpensMember(i) ==
    \/ BlockOf(i) = 1
    \/ BlockOf(i) = 2 /\ StartsWith(Body[i], "def ")
    \/ BlockOf(i) = 3 /\ i > 1 /\ Body[i - 1] = "@property"

\* C10: the constant lines come first, then the method lines, then the
\* property lines; inside each block the members are in ascending order of
\* (priority, name): constructors, then the names not framed by double
\* underscores, then the framed ones, each group in str order.
C10_MembersInKeyOrder ==
    (pc = "done") =>
        /\ \A i, j \in 1..Len(Body) : i < j => BlockOf(i) <= BlockOf(j)
        /\ \A i, j \in 1..Len(Body) :
              (i < j /\ OpensMember(i) /\ OpensMember(j) /\ BlockOf(i) = BlockOf(j)) =>
                  ClaimedBefore(DeclaredName(Body[i]), DeclaredName(Body[j]))

\* A class with the methods __eq__ and foo: foo is rendered first.
C10_Witness ==
    /\ pc = "done"
    /\ DOMAIN args.obj_dict = {"__eq__", "foo"}
    /\ Len(output) = 3
    /\ IsDefOf(Body[1], "foo")
    /\ IsDefOf(Body[2], "__eq__")

(* Claims about the shape of a class stub, checked under SpecMembers.      *)

\* A member for which some line is rendered: every member whose name is
\* not in the blocklist (a def line, a decorator line or a constant line),
\* and every property (its getter lines), whatever its name.
RendersLine(name) ==
    \/ name \notin SkippedAttributes
    \/ (~IsCallable(args.obj_dict[name]) /\ IsCProperty(args.obj_dict[name]))

\* The text between the class name and the colon, from the ancestors kept.
ExpectedBasesStr ==
    LET mro == Mro(args.classes, args.obj)
        kept == Ascending(KeptAncestors)
        names == [i \in 1..Len(kept) |-> DisplayName(mro[kept[i]])]
    IN  IF kept = <<>> THEN "" ELSE "(" \o Join(names, ", ") \o ")"

\* C11: a class stub is the single line `class Name<bases>: ...` exactly
\* when no line is rendered for any of its members; otherwise its header
\* ends with `:` without the placeholder and at least one indented line
\* follows it, and nothing but indented lines. With no line rendered and no
\* base kept the stub is exactly `class Name: ...`.
C11_EmptyClassIsOneLine ==
    (pc = "done") =>
        LET header == "class " \o args.class_name \o ExpectedBasesStr
        IN  /\ (~\E name \in DOMAIN args.obj_dict : RendersLine(name)) =>
                   output = <<header \o ": ...">>
            /\ (\E name \in DOMAIN args.obj_dict : RendersLine(name)) =>
                   /\ Len(output) >= 2
                   /\ output[1] = header \o ":"
                   /\ \A i \in 2..Len(output) :
                         /\ StartsWith(output[i], "    ")
                         /\ Len(output[i]) > Len("    ")
            /\ (KeptAncestors = {} /\ ~\E name \in DOMAIN args.obj_dict : RendersLine(name)) =>
                   output = <<"class " \o args.class_name \o ": ...">>

\* Class Y, whose only base is object, with two blocklisted members, a
\* method and a plain value: it renders as `class Y: ...`.
C11_Witness ==
    /\ pc = "done"
    /\ args.obj = 3
    /\ DOMAIN args.obj_dict = {"__str__", "__doc__"}
    /\ IsCMethod(args.obj_dict["__str__"])
    /\ args.obj_dict["__doc__"] = IntValue
    /\ output = <<"class Y: ...">>

\* Class X, derived from Base, with one method: a header and one line.
C11_WitnessBlock ==
    /\ pc = "done"
    /\ args.obj = 2
    /\ DOMAIN args.obj_dict = {"foo"}
    /\ output = <<"class X(Base):", "    def foo(self, *args, **kwargs) -> Any: ...">>

(* Claims about the receiver of a method stub, checked under SpecFunc.     *)

\* The parameters of a parenthesised parameter list: its text between the
\* parentheses, cut at the commas that are inside no square bracket.
BracketDepth(s, i) ==
    Cardinality({j \in 1..i : CharAt(s, j) = "["})
        - Cardinality({j \in 1..i : CharAt(s, j) = "]"})

TopLevelParams(s) ==
    IF Strip(s) = "" THEN <<>>
    ELSE LET cuts == Ascending({i \in 1..Len(s) :
                                    CharAt(s, i) = "," /\ BracketDepth(s, i) = 0})
             n == Len(cuts)
         IN  [k \in 1..(n + 1) |->
                 Strip(Slice(s, IF k = 1 THEN 0 ELSE cuts[k - 1],
                                IF k = n + 1 THEN Len(s) ELSE cuts[k] - 1))]

\* The name of a parameter: its text before the annotation, if any.
ParamName(p) == IF Contains(p, ":") THEN Strip(SliceTo(p, Index(p, ":"))) ELSE p

ParamNames(ps) == [k \in 1..Len(ps) |-> ParamName(ps[k])]

\* The parameters of the signature the stub is made from.
SourceParams ==
    LET sig == ChooseSignature(args.name, args.docstr, args.sigs, args.class_name,
                               args.class_sigs)[1]
    IN  TopLevelParams(Slice(sig, 1, Len(sig) - 1))

\* The parameters of the def line written.
RenderedParams ==
    LET line == output[Len(output)]
        open == Len("def " \o args.name \o "(")
        close == CHOOSE i \in 1..Len(line) :
                    /\ SubSeq(line, i, i + 4) = ") -> "
                    /\ \A j \in 1..(i - 1) : SubSeq(line, j, j + 4) # ") -> "
    IN  TopLevelParams(Slice(line, open, close - 1))

\* C12: a stub made with receiver r has r once, first and without
\* annotation: when the first source parameter is r, bare or annotated, the
\* rendered parameters are r and then the remaining source parameters in
\* their order; otherwise they are r and then all the source parameters;
\* for an empty source signature they are r alone.
C12_ReceiverOnceAndFirst ==
    (pc = "done" /\ Truthy(args.self_var)) =>
        LET r == args.self_var
            src == ParamNames(SourceParams)
            expected == IF src # <<>> /\ src[1] = r THEN src ELSE <<r>> \o src
        IN  /\ RenderedParams # <<>>
            /\ RenderedParams[1] = r
            /\ ParamNames(RenderedParams) = expected
            /\ (src = <<>>) => output[Len(output)] =
                   "def " \o args.name \o "(" \o r \o ") -> "
                       \o SliceFrom(output[Len(output)],
                                    Len("def " \o args.name \o "(" \o r \o ") -> "))

\* The receiver's annotation holds a comma inside square brackets.
ReceiverAnnotationHasComma ==
    /\ SourceParams # <<>>
    /\ ParamName(SourceParams[1]) = args.self_var
    /\ Contains(SourceParams[1], ",")

\* The same statement for the signatures whose receiver, if annotated, has
\* an annotation without a comma.
C12_ReceiverOnceWithoutCommaInAnnotation ==
    (pc = "done" /\ Truthy(args.self_var) /\ ~ReceiverAnnotationHasComma) =>
        LET r == args.self_var
            src == ParamNames(SourceParams)
        IN  /\ RenderedParams # <<>>
            /\ RenderedParams[1] = r
            /\ ParamNames(RenderedParams)
                   = IF src # <<>> /\ src[1] = r THEN src ELSE <<r>> \o src

-----------------------------------------------------------------------------
(* generate_stub_for_c_module, the entry point: the module is imported and *)
(* checked, the directory of the target is prepared, the lines are         *)
(* generated, the target is opened and written.  Each step that touches    *)
(* the file system is an action of its own, since it can raise.            *)

\* A value of a module's table that is a type, and which class it is.
TypeValue(c) ==
    ("cls" :> c) @@ RuntimeValue("type", FALSE, FALSE, FALSE, FALSE, None, None)

\* A value of any other type, by the name of its type.
PlainValue(typename) == RuntimeValue(typename, FALSE, FALSE, FALSE, FALSE, None, None)

IsCFunction(obj) == obj.isbuiltin \/ obj.typename = "builtin_function_or_method"

IsCType(obj) == obj.typename = "type"

\* inspect.ismodule(obj)
IsModule(obj) == obj.typename = "module"

\* is_c_module of mypy.stubutil: a probe of the loaded module.
IsCModule(loaded) == loaded.is_c

\* A variant in which the check of line 26 is not made.
AssertIsCModule_Disabled(loaded) == TRUE

\* Line 26: whether the assertion passes.
AssertIsCModule(loaded) == IsCModule(loaded)

\* os.path.dirname(target)
Dirname(target) == IF Contains(target, "/") THEN SliceTo(target, RIndex(target, "/")) ELSE ""

\* The directories os.makedirs(subdir) leaves in existence: subdir and the
\* directories above it.
MadeDirs(subdir) ==
    {subdir} \cup {SliceTo(subdir, i - 1) : i \in {j \in 1..Len(subdir) : CharAt(subdir, j) = "/"}}

\* sorted(...) of a set of str.
SortedNames(S) == SortSeq(SetToSeq(S), StrLess)

\* Lines 34-37, from the k-th item on: acc is the pair <<functions, imports>>.
RECURSIVE FunctionsLoop(_, _, _, _, _, _)
FunctionsLoop(mod, dict, items, k, acc, sigs) ==
    IF k > Len(items) THEN acc
    ELSE FunctionsLoop(mod, dict, items, k + 1,
                       IF IsCFunction(dict[items[k]])
                       THEN GenerateCFunctionStub(mod, items[k], dict[items[k]].doc, acc[1],
                                                  acc[2], None, sigs, None, EmptyDict)
                       ELSE acc,
                       sigs)

\* Lines 39-45, from the k-th item on: acc is the pair <<types, imports>>.
RECURSIVE TypesLoop(_, _, _, _, _, _, _)
TypesLoop(mod, loaded, items, k, acc, sigs, class_sigs) ==
    IF k > Len(items) THEN acc
    ELSE TypesLoop(mod, loaded, items, k + 1,
                   IF ~IsDunder(items[k]) /\ IsCType(loaded.dict[items[k]])
                   THEN GenerateCTypeStub(mod, items[k], loaded.dict[items[k]].cls,
                                          loaded.classes,
                                          loaded.dicts[loaded.dict[items[k]].cls],
                                          acc[1], acc[2], sigs, class_sigs)
                   ELSE acc,
                   sigs, class_sigs)

\* Lines 35-37 and 42-45: the names added to done.
DoneNames(dict) ==
    {n \in DOMAIN dict : IsCFunction(dict[n]) \/ (~IsDunder(n) /\ IsCType(dict[n]))}

\* Lines 51-54.
VariableLine(name, obj) ==
    name \o ": " \o (IF obj.typename \in {"int", "str", "bytes", "float", "bool"}
                     THEN obj.typename ELSE "Any")

\* Lines 46-54.
ModuleVariables(dict, items) ==
    LET kept == SelectSeq(items, LAMBDA n : /\ ~IsDunder(n)
                                            /\ n \notin DoneNames(dict)
                                            /\ ~IsModule(dict[n]))
    IN  [k \in 1..Len(kept) |-> VariableLine(kept[k], dict[kept[k]])]

\* Lines 64-67, from the k-th line of types on.
RECURSIVE AppendTypes(_, _, _)
AppendTypes(out, types, k) ==
    IF k > Len(types) THEN out
    ELSE AppendTypes(Append(IF StartsWith(types[k], "class") /\ out # <<>>
                                  /\ out[Len(out)] # ""
                            THEN Append(out, "")
                            ELSE out,
                            types[k]),
                     types, k + 1)

\* Lines 55-63.
BeforeTypes(sorted_imports, variables, functions) ==
    (IF sorted_imports \o variables # <<>> /\ functions # <<>>
     THEN Append(sorted_imports \o variables, "")
     ELSE sorted_imports \o variables) \o functions

\* Lines 55-68: typed is the pair <<types, imports>> the second loop left.
Assemble(dict, items, functions, typed) ==
    AddTypingImport(AppendTypes(BeforeTypes(SortedNames(Range(typed[2])),
                                            ModuleVariables(dict, items), functions),
                                typed[1], 1))

\* Lines 38-68: with_functions is the pair <<functions, imports>>.
AfterFunctions(mod, loaded, items, with_functions, sigs, class_sigs) ==
    Assemble(loaded.dict, items, with_functions[1],
             TypesLoop(mod, loaded, items, 1, <<<<>>, with_functions[2]>>, sigs, class_sigs))

\* Lines 30-68, with the sorted items computed.
OutputOfItems(mod, loaded, items, sigs, class_sigs) ==
    AfterFunctions(mod, loaded, items,
                   FunctionsLoop(mod, loaded.dict, items, 1, <<<<>>, <<>>>>, sigs),
                   sigs, class_sigs)

\* Lines 30-68: the lines to write.
GenerateOutput(mod, loaded, sigs, class_sigs) ==
    OutputOfItems(mod, loaded, SortedNames(DOMAIN loaded.dict), sigs, class_sigs)

\* write_header of mypy.stubutil: the lines of the header comment.
HeaderLines(module_name) == <<"# Stubs for " \o module_name, "#">>

\* The effects on the file system, as entries of fs.log.
Effect(kind, what) == [kind |-> kind, what |-> what]

\* Lines 25-26.
ImportAndCheck ==
    /\ pc = "start"
    /\ IF AssertIsCModule(args.loaded)
       THEN pc' = "prepare" /\ UNCHANGED result
       ELSE pc' = "raised" /\ result' = "AssertionError"
    /\ UNCHANGED <<module, args, imports, output, fs>>

\* Lines 27-29, when the directory is made or need not be.
PrepareDirectory ==
    /\ pc = "prepare"
    /\ LET subdir == Dirname(args.target)
       IN  IF subdir # "" /\ subdir \notin fs.dirs
           THEN fs' = [fs EXCEPT !.dirs = @ \cup MadeDirs(subdir),
                                 !.log = Append(@, Effect("makedirs", subdir))]
           ELSE UNCHANGED fs
    /\ pc' = "generate"
    /\ UNCHANGED <<module, args, imports, output, result>>

\* Line 29, when os.makedirs raises.
PrepareDirectoryFails ==
    /\ pc = "prepare"
    /\ Dirname(args.target) # ""
    /\ Dirname(args.target) \notin fs.dirs
    /\ pc' = "raised"
    /\ result' = "OSError"
    /\ UNCHANGED <<module, args, imports, output, fs>>

\* Lines 30-68.
CallGenerateOutput ==
    /\ pc = "generate"
    /\ output' = GenerateOutput(module, args.loaded, args.sigs, args.class_sigs)
    /\ pc' = "open"
    /\ UNCHANGED <<module, args, imports, result, fs>>

\* Line 69: the target is created or truncated.
OpenTarget ==
    /\ pc = "open"
    /\ fs' = [fs EXCEPT !.opened = TRUE, !.text = <<>>,
                        !.log = Append(@, Effect("open", args.target))]
    /\ pc' = "header"
    /\ UNCHANGED <<module, args, imports, output, result>>

\* Line 69, when open raises.
OpenTargetFails ==
    /\ pc = "open"
    /\ pc' = "raised"
    /\ result' = "OSError"
    /\ UNCHANGED <<module, args, imports, output, fs>>

\* Lines 70-71.
WriteHeader ==
    /\ pc = "header"
    /\ IF args.add_header
       THEN fs' = [fs EXCEPT !.text = @ \o HeaderLines(args.module_name),
                             !.log = Append(@, Effect("write_header", args.module_name))]
       ELSE UNCHANGED fs
    /\ pc' = "lines"
    /\ UNCHANGED <<module, args, imports, output, result>>

\* The number of lines of output written so far.
LinesWritten == Cardinality({i \in 1..Len(fs.log) : fs.log[i].kind = "write"})

\* Lines 72-73: one turn of the loop.
WriteLine ==
    /\ pc = "lines"
    /\ LinesWritten < Len(output)
    /\ fs' = [fs EXCEPT !.text = Append(@, output[LinesWritten + 1]),
                        !.log = Append(@, Effect("write", output[LinesWritten + 1]))]
    /\ UNCHANGED <<pc, module, args, imports, output, result>>

\* The end of the with block of line 69: the file is closed.
CloseTarget ==
    /\ pc = "lines"
    /\ LinesWritten = Len(output)
    /\ fs' = [fs EXCEPT !.opened = FALSE]
    /\ pc' = "done"
    /\ UNCHANGED <<module, args, imports, output, result>>

(* Arguments of generate_stub_for_c_module: a module with up to MaxSymbols *)
(* symbols, C module or not; a target in the current directory, in a       *)
(* directory or in a directory of a directory, which exist or do not; a    *)
(* target file that exists or does not.                                    *)

MaxSymbols == 2

SymbolValues ==
    [f |-> {BuiltinFunction(None), BuiltinFunction("f(x: foo.Bar) -> int")},
     g |-> {BuiltinFunction(None)},
     X |-> {TypeValue(2)},
     Y |-> {TypeValue(3)},
     n |-> {PlainValue("int")},
     thing |-> {PlainValue("Thing")},
     sub |-> {PlainValue("module")},
     __name__ |-> {PlainValue("str")}]

ModuleDicts ==
    UNION {{d \in [S -> UNION {SymbolValues[n] : n \in S}] :
               \A n \in S : d[n] \in SymbolValues[n]}
           : S \in {T \in SUBSET DOMAIN SymbolValues : Cardinality(T) <= MaxSymbols}}

\* The classes of the module and their tables.
ModuleClassDicts ==
    <<EmptyDict,
      "foo" :> ClassmethodDescriptor(None),
      "size" :> PropertyValue("int: the size", None)>>

Targets == {"m.pyi", "out/m.pyi", "out/stubs/m.pyi"}

InitialDirs == {{}, {"out"}, {"out", "out/stubs"}}

InitEntry ==
    /\ pc = "start"
    /\ module = "m"
    /\ \E d \in ModuleDicts, is_c \in BOOLEAN :
          args \in [module_name : {"m"},
                    target : Targets,
                    add_header : BOOLEAN,
                    sigs : {EmptyDict},
                    class_sigs : {EmptyDict},
                    loaded : {[is_c |-> is_c, dict |-> d, classes |-> MemberClasses,
                               dicts |-> ModuleClassDicts]},
                    fs0 : [dirs : InitialDirs, opened : {FALSE},
                           text : {None, <<"# an older stub">>}, log : {<<>>}]]
    /\ imports = <<>>
    /\ output = <<>>
    /\ result = None
    /\ fs = args.fs0

NextEntry ==
    \/ ImportAndCheck
    \/ PrepareDirectory
    \/ PrepareDirectoryFails
    \/ CallGenerateOutput
    \/ OpenTarget
    \/ OpenTargetFails
    \/ WriteHeader
    \/ WriteLine
    \/ CloseTarget

SpecEntry == InitEntry /\ [][NextEntry]_vars

(* Claims about the entry point, checked under SpecEntry.                  *)

\* The positions of the log with an effect of a kind.
EffectsOf(kind) == {i \in 1..Len(fs.log) : fs.log[i].kind = kind}

\* The directory of the target exists, or the target needs none.
DirectoryReady ==
    \/ ~\E i \in 1..Len(args.target) : SubSeq(args.target, i, i) = "/"
    \/ \E d \in fs.dirs : args.target = d \o "/m.pyi"

\* C13: for a module that is not a C module the call raises at the check
\* and the file system is as it was: no directory made, the target not
\* opened, its text untouched. Otherwise the target is opened only once its
\* directory is ready, after the directory was made if it had to be and
\* with nothing made afterwards, and when a header is asked for it is
\* written before every line of the output: the text of the file is the
\* header followed by the lines written so far.
C13_CheckBeforeEffectsOpenAfterPrepare ==
    /\ ~args.loaded.is_c =>
           /\ pc \in {"start", "raised"}
           /\ pc = "raised" => result = "AssertionError"
           /\ fs = args.fs0
           /\ fs.log = <<>>
    /\ \A i \in EffectsOf("open") :
           /\ DirectoryReady
           /\ \A j \in EffectsOf("makedirs") : j < i
    /\ (fs.opened \/ EffectsOf("write") # {} \/ EffectsOf("write_header") # {}) =>
           EffectsOf("open") # {}
    /\ args.add_header =>
           /\ \A i \in EffectsOf("write") : \E j \in EffectsOf("write_header") : j < i
           /\ EffectsOf("write") # {} =>
                  /\ fs.text[1] = "# Stubs for m"
                  /\ \A k \in 1..Cardinality(EffectsOf("write")) :
                        fs.text[Len(fs.text) - Cardinality(EffectsOf("write")) + k] = output[k]
    /\ ~args.add_header => EffectsOf("write_header") = {}

\* A module that is not a C module, a target in a directory that does not
\* exist and an older file: the call has raised and nothing has changed.
C13_Witness ==
    /\ pc = "raised"
    /\ result = "AssertionError"
    /\ ~args.loaded.is_c
    /\ args.target = "out/stubs/m.pyi"
    /\ args.fs0.dirs = {}
    /\ fs.dirs = {}
    /\ fs.text = <<"# an older stub">>

\* A C module written with its header into a directory that was made.
C13_WitnessWritten ==
    /\ pc = "done"
    /\ args.loaded.is_c
    /\ args.add_header
    /\ args.fs0.dirs = {}
    /\ fs.dirs = {"out", "out/stubs"}
    /\ Len(output) > 0
    /\ fs.text = <<"# Stubs for m", "#">> \o output

(* Claims about the class method markers, checked under SpecMembers.       *)

\* The name under which a method of the class's table is rendered.
RenderedMethodName(name) == IF name = "__new__" THEN "__init__" ELSE name

\* The line is the def line, with receiver cls, of a class method of the
\* class's table.
IsClassmethodDef(line) ==
    \E name \in DOMAIN args.obj_dict :
        /\ IsCClassmethod(args.obj_dict[name])
        /\ name \notin SkippedAttributes
        /\ \/ line = "def " \o RenderedMethodName(name) \o "(cls) -> "
                        \o SliceFrom(line, Len("def " \o RenderedMethodName(name) \o "(cls) -> "))
           \/ StartsWith(line, "def " \o RenderedMethodName(name) \o "(cls, ")

\* C14: every `@classmethod` line of a class stub is immediately followed
\* by the def line, with receiver cls, of a class method of the class; none
\* is the last line of the body, or stands before another marker, before a
\* def line with another receiver, or before a property. The classes are
\* those whose constructors, if any, are callable members.
C14_ClassmethodMarkerHasItsDef ==
    (pc = "done" /\ ConstructorsAreCallable) =>
        \A i \in 1..Len(Body) :
            Body[i] = "@classmethod" =>
                /\ i < Len(Body)
                /\ IsClassmethodDef(Body[i + 1])

\* The same statement for the classes that do not have both __new__ and
\* __init__ in their table.
C14_MarkerHasItsDefWithoutBothConstructors ==
    (pc = "done" /\ ~({"__new__", "__init__"} \subseteq DOMAIN args.obj_dict)) =>
        \A i \in 1..Len(Body) :
            Body[i] = "@classmethod" =>
                /\ i < Len(Body)
                /\ IsClassmethodDef(Body[i + 1])

=============================================================================
